---------------------------- MODULE Spec2Model ----------------------------
(***************************************************************************)
(* CCD - Camcorder Color Denoise.                                          *)
(*                                                                         *)
(* A model of the VapourSynth plugin of src/src/ccd.cpp (the kernel        *)
(* ccdRun, ccdGetframe, ccdFree, ccdCreate) and of the older plugin        *)
(* skeleton src/ccd.cpp (ccdGetframe, ccdFree, ccdCreate).                 *)
(*                                                                         *)
(* Samples are 32-bit floats.  A float is modelled as a fraction           *)
(* <<num, den>> with den > 0, not necessarily in lowest terms, or as       *)
(* NaN == <<0, 0>>; two fractions of one value are the same float (feq).   *)
(* Sums, differences, products and comparisons are those of the fractions, *)
(* with the IEEE rules for NaN (an arithmetic result with a NaN operand is *)
(* NaN, an ordered comparison with a NaN operand is false).  Rounding to   *)
(* 24 bits is not modelled: RCP_TABLE[i] is the fraction 1/i.              *)
(*                                                                         *)
(* A frame is a record [width, height, pix], pix mapping <<x, y>> to the   *)
(* colour <<r, g, b>> of the three planes at that coordinate.  A read at a *)
(* coordinate outside the plane is undefined behaviour of the program: it  *)
(* yields whatever the memory next to the plane holds, the colour `pad',   *)
(* which the initial state chooses.                                        *)
(***************************************************************************)
EXTENDS Integers, Sequences, FiniteSets, TLC

VARIABLES
    src,        \* ccdRun: the source frame
    pad,        \* the colour a read outside a plane (or the table) yields
    thr_sq,     \* ccdRun: the scaled and squared threshold
    dst,        \* ccdRun: the samples of the destination frame
    x, y,       \* ccdRun: the counters of the pixel loops
    n,          \* ccdRun: the weight n of the pixel processed last
    pc,         \* where the run is
    seq,        \* parallel run: the destination the sequential ccdRun produced
    wpos,       \* parallel run: per worker, how many of its pixels it has done
    ver,        \* plugin: "v4" is src/src/ccd.cpp, "v3" is src/ccd.cpp
    args,       \* plugin: the clip's video info and the "threshold" argument
    node,       \* plugin: the clip node reference (acquired, released, misused)
    out,        \* plugin: the error of the output map, "" when none is set
    filter,     \* plugin: the filter instance, its state and its ccdData
    requested,  \* plugin: the frame requested from the input node, if any
    call        \* plugin: what the last ccdGetframe call did

kvars == <<src, pad, thr_sq, dst, x, y, n, pc, seq, wpos>>

hvars == <<ver, args, node, out, filter, requested, call>>

kvars_but_pc == <<src, pad, thr_sq, dst, x, y, n, seq, wpos>>

vars == <<src, pad, thr_sq, dst, x, y, n, pc, seq, wpos,
          ver, args, node, out, filter, requested, call>>

-----------------------------------------------------------------------------
(* Floats *)

NaN == <<0, 0>>

IsNaN(a) == a[2] = 0

IntAbs(k) == IF k < 0 THEN -k ELSE k

RECURSIVE GCD(_, _)
GCD(a, b) == IF b = 0 THEN a ELSE GCD(b, a % b)

\* The float of value num/den, den > 0, in lowest terms.
Rat(num, den) ==
    LET g == GCD(IntAbs(num), den) IN <<num \div g, den \div g>>

\* a + b
fadd(a, b) ==
    IF a[2] = 0 \/ b[2] = 0 THEN NaN
    ELSE IF a[2] = b[2] THEN <<a[1] + b[1], a[2]>>
    ELSE Rat(a[1] * b[2] + b[1] * a[2], a[2] * b[2])

\* a - b
fsub(a, b) ==
    IF a[2] = 0 \/ b[2] = 0 THEN NaN
    ELSE IF a[2] = b[2] THEN <<a[1] - b[1], a[2]>>
    ELSE Rat(a[1] * b[2] - b[1] * a[2], a[2] * b[2])

\* a * b
fmul(a, b) ==
    IF a[2] = 0 \/ b[2] = 0 THEN NaN
    ELSE <<a[1] * b[1], a[2] * b[2]>>

\* a < b, a > b, a == b
flt(a, b) == a[2] # 0 /\ b[2] # 0 /\ a[1] * b[2] < b[1] * a[2]

fgt(a, b) == flt(b, a)

feq(a, b) == a[2] # 0 /\ b[2] # 0 /\ a[1] * b[2] = b[1] * a[2]

fzero == Rat(0, 1)

fone == Rat(1, 1)

-----------------------------------------------------------------------------
(* Helpers and constants of src/src/ccd.cpp *)

square(v) == fmul(v, v)

clip_noupper(v, mi, ma) == IF flt(v, mi) THEN mi ELSE v

clip(v, mi, ma) == IF flt(v, mi) THEN mi ELSE IF fgt(v, ma) THEN ma ELSE v

wrap_oob_coord_off(c, w) == IF c >= w THEN w * 2 - (c + 1) ELSE IntAbs(c)

wrap_oob_coord(c, w) == IF c >= w THEN w * 2 - (c + 2) ELSE IntAbs(c)

max_radius == 12

min_step == 8

max_kernel_samples ==
    (1 + ((max_radius * 2) \div min_step)) * (1 + ((max_radius * 2) \div min_step))

max_weight == 1 + max_kernel_samples

init_reciprocal_table ==
    [i \in 0 .. max_weight |-> IF i = 0 THEN fzero ELSE Rat(1, i)]

RCP_TABLE == init_reciprocal_table

\* RCP_TABLE[i]; an index past the table reads the memory behind it.
RcpAt(i) == IF i \in DOMAIN RCP_TABLE THEN RCP_TABLE[i] ELSE pad[1]

-----------------------------------------------------------------------------
(* The kernel: the body of the pixel loops of ccdRun *)

InPlane(cx, cy, w, h) == cx >= 0 /\ cx < w /\ cy >= 0 /\ cy < h

\* plane[comp_y * stride + comp_x] for the three planes.
Sample(pix, w, h, cx, cy) ==
    IF InPlane(cx, cy, w, h) THEN pix[<<cx, cy>>] ELSE pad

\* The values dy (or dx) takes: c - radius, c - radius + step, .. <= c + radius.
GridCoordsOneMore(c) ==
    [k \in 1 .. (((2 * max_radius) \div min_step) + 2) |->
        c - max_radius + (k - 1) * min_step]

GridCoords(c) ==
    [k \in 1 .. (((2 * max_radius) \div min_step) + 1) |->
        c - max_radius + (k - 1) * min_step]

l2norm_sq(comp, ref) ==
    fadd(fadd(square(fsub(comp[1], ref[1])), square(fsub(comp[2], ref[2]))),
         square(fsub(comp[3], ref[3])))

IncludedTie(thr, d2) == ~flt(thr, d2) /\ ~IsNaN(thr) /\ ~IsNaN(d2)

\* thr_sq > l2norm_sq
Included(thr, d2) == fgt(thr, d2)

\* One iteration of the inner loop: the sample at (comp_x, comp_y) is added
\* to the totals and counted when it passes the test.
Accumulate(acc, comp, ref, thr) ==
    IF Included(thr, l2norm_sq(comp, ref))
    THEN [tot |-> <<fadd(acc.tot[1], comp[1]), fadd(acc.tot[2], comp[2]),
                    fadd(acc.tot[3], comp[3])>>,
          n |-> acc.n + 1]
    ELSE acc

\* The two loops over dy and dx, from the k-th pair of values on.  (The
\* weight never decreases; the test only fixes the order of evaluation.)
RECURSIVE ScanGrid(_, _, _, _, _, _, _, _, _)
ScanGrid(pix, w, h, ys, xs, k, ref, thr, acc) ==
    IF k > Len(ys) * Len(xs) THEN acc
    ELSE LET comp_y == wrap_oob_coord(ys[((k - 1) \div Len(xs)) + 1], h)
             comp_x == wrap_oob_coord(xs[((k - 1) % Len(xs)) + 1], w)
             comp == Sample(pix, w, h, comp_x, comp_y)
             next == Accumulate(acc, comp, ref, thr)
         IN IF next.n >= acc.n
            THEN ScanGrid(pix, w, h, ys, xs, k + 1, ref, thr, next)
            ELSE acc

\* The loop body for the pixel (px, py) over the planes pix: the weight n
\* and the three samples written to the destination.
ccdPixel(pix, w, h, px, py, thr) ==
    LET ref == pix[<<px, py>>]
        acc == ScanGrid(pix, w, h, GridCoords(py), GridCoords(px), 1, ref, thr,
                        [tot |-> ref, n |-> 1])
        rcp == RcpAt(acc.n)
    IN [n |-> acc.n,
        out |-> <<clip(fmul(acc.tot[1], rcp), fzero, fone),
                  clip(fmul(acc.tot[2], rcp), fzero, fone),
                  clip(fmul(acc.tot[3], rcp), fzero, fone)>>]

\* The planes the loop body reads: the read pointers of src.
ReadPlanes(srcpix, dstpix) == srcpix

PixelBodySpill(f, dstpix, px, py, thr) ==
    LET res == ccdPixel(ReadPlanes(f.pix, dstpix), f.width, f.height, px, py, thr)
    IN IF py + 1 < f.height
       THEN [dstpix EXCEPT ![<<px, py>>] = res.out, ![<<px, py + 1>>] = res.out]
       ELSE [dstpix EXCEPT ![<<px, py>>] = res.out]

\* One iteration of the pixel loops: the destination after (px, py).
PixelBody(f, dstpix, px, py, thr) ==
    [dstpix EXCEPT ![<<px, py>>] =
        ccdPixel(ReadPlanes(f.pix, dstpix), f.width, f.height, px, py, thr).out]

\* The loop over x of the row py, from px on.  (A write never changes the
\* extent of the destination; the test only fixes the order of evaluation.)
RECURSIVE RowLoop(_, _, _, _, _)
RowLoop(f, dstpix, px, py, thr) ==
    IF px >= f.width THEN dstpix
    ELSE LET next == PixelBody(f, dstpix, px, py, thr)
         IN IF DOMAIN next = DOMAIN dstpix
            THEN RowLoop(f, next, px + 1, py, thr)
            ELSE dstpix

\* The loop over y, from py on.
RECURSIVE PixelLoops(_, _, _, _)
PixelLoops(f, dstpix, py, thr) ==
    IF py >= f.height THEN dstpix
    ELSE LET next == RowLoop(f, dstpix, 0, py, thr)
         IN IF DOMAIN next = DOMAIN dstpix
            THEN PixelLoops(f, next, py + 1, thr)
            ELSE dstpix

\* ccdRun(src, dest, thr_sq): the samples of dest when it returns.
ccdRun(f, dstpix, thr) == PixelLoops(f, dstpix, 0, thr)

-----------------------------------------------------------------------------
(* Frames and thresholds the runs draw from *)

MaxDim == 13

Dims == max_radius .. MaxDim

\* Frame sizes: the narrowest accepted width with every height, and squares.
Sizes == {s \in Dims \X Dims : s[1] = max_radius \/ s[1] = s[2]}

\* The sample k/4.
Q(k) == <<k, 4>>

Gray == <<Q(2), Q(2), Q(2)>>

Light == <<Q(3), Q(3), Q(3)>>

Red == <<Q(4), Q(0), Q(0)>>

Over == <<Q(5), Q(-1), Q(2)>>

Under == <<Q(3), Q(1), Q(2)>>

Hdr == <<Q(6), Q(-2), Q(5)>>

NanPix == <<NaN, Q(2), Q(2)>>

FrameKinds == {"outlier", "stripes", "hdr", "nan"}

\* "outlier": uniform gray but (8,8) = (1,0,0).  "stripes": three colours in
\* range, 3/16, 3/4 and 19/16 apart.  "hdr": colours outside [0,1].
\* "nan": gray with one NaN sample and one lighter pixel.
Pattern(kind, px, py) ==
    CASE kind = "outlier" -> IF px = 8 /\ py = 8 THEN Red ELSE Gray
      [] kind = "stripes" -> <<Gray, Light, Red>>[((px + py) % 3) + 1]
      [] kind = "hdr" -> <<Over, Under, Hdr>>[((px + 2 * py) % 3) + 1]
      [] kind = "nan" -> IF px = 7 /\ py = 3 THEN NanPix
                         ELSE IF px = 2 /\ py = 2 THEN Light ELSE Gray

Pixels(w, h) == (0 .. w - 1) \X (0 .. h - 1)

MkFrame(kind, w, h) ==
    [width |-> w, height |-> h,
     pix |-> [p \in Pixels(w, h) |-> Pattern(kind, p[1], p[2])]]

Frames ==
    {MkFrame(k, s[1], s[2]) : k \in FrameKinds, s \in Sizes}
        \cup {MkFrame("outlier", 16, 16)}

\* thr_sq = square(thr_user / (255 sqrt(3))) for the user thresholds 0,
\* 4 (the default), 191.25 and 255 sqrt(3).
ThrSqs == {Rat(0, 1), Rat(16, 195075), Rat(3, 16), Rat(1, 1)}

Pads == {Light, NanPix}

NoFrame == [width |-> 0, height |-> 0, pix |-> <<>>]

NoCall == [reason |-> "none", n |-> 0, ret |-> "null", allocs |-> 0,
           runs |-> 0, freed |-> 0, fetched |-> 0, requests |-> 0]

HostIdle ==
    /\ ver = "none"
    /\ args = <<>>
    /\ node = <<>>
    /\ out = ""
    /\ filter = <<>>
    /\ requested = {}
    /\ call = NoCall

-----------------------------------------------------------------------------
(* ccdRun, one iteration of the pixel loops a step *)

InitKernel ==
    /\ src \in Frames
    /\ pad \in Pads
    /\ thr_sq \in ThrSqs
    /\ dst = src.pix
    /\ x = 0
    /\ y = 0
    /\ n = 0
    /\ pc = "run"
    /\ seq = <<>>
    /\ wpos = <<>>
    /\ HostIdle

ccdRunPixel ==
    /\ pc = "run"
    /\ y < src.height
    /\ x < src.width
    /\ dst' = PixelBody(src, dst, x, y, thr_sq)
    /\ n' = ccdPixel(ReadPlanes(src.pix, dst), src.width, src.height, x, y,
                     thr_sq).n
    /\ IF x + 1 < src.width
       THEN x' = x + 1 /\ y' = y /\ pc' = "run"
       ELSE x' = 0 /\ y' = y + 1
            /\ pc' = IF y + 1 < src.height THEN "run" ELSE "done"
    /\ UNCHANGED <<src, pad, thr_sq, seq, wpos>>
    /\ UNCHANGED hvars

NextKernel == ccdRunPixel

SpecKernel == InitKernel /\ [][NextKernel]_vars

\* The pixel processed last, once one has been.
Processed == pc \in {"run", "done"} /\ (x # 0 \/ y # 0)

LastX == IF x = 0 THEN src.width - 1 ELSE x - 1

LastY == IF x = 0 THEN y - 1 ELSE y

LastRef == src.pix[<<LastX, LastY>>]

LastOut == dst[<<LastX, LastY>>]

-----------------------------------------------------------------------------
(* The pixels of one frame processed by two workers *)

\* Worker 0 processes the first ParRows rows, worker 1 the others, each in
\* row-major order; the steps of the two interleave freely.
ParRows == 1

Workers == {0, 1}

ParFrames == {MkFrame(k, MaxDim, MaxDim) : k \in {"stripes", "hdr", "nan"}}

WorkerFirst(w) == IF w = 0 THEN 0 ELSE ParRows * src.width

WorkerCount(w) ==
    IF w = 0 THEN ParRows * src.width ELSE (src.height - ParRows) * src.width

\* The worker that owns the pixel p, and p's place in its order.
Owner(p) == IF p[2] < ParRows THEN 0 ELSE 1

Written(p) == (p[2] * src.width + p[1]) - WorkerFirst(Owner(p)) < wpos[Owner(p)]

InitPar ==
    /\ src \in ParFrames
    /\ pad = Light
    /\ thr_sq = <<1, 1>>
    /\ dst = src.pix
    /\ x = 0
    /\ y = 0
    /\ n = 0
    /\ pc = "idle"
    /\ seq = src.pix
    /\ wpos = [w \in Workers |-> 0]
    /\ HostIdle

\* The sequential ccdRun on a destination of its own.
ccdRunSequential ==
    /\ pc = "idle"
    /\ seq' = ccdRun(src, seq, thr_sq)
    /\ pc' = "par"
    /\ UNCHANGED <<src, pad, thr_sq, dst, x, y, n, wpos>>
    /\ UNCHANGED hvars

\* Worker w runs the loop body for its next pixel.
WorkerPixel(w) ==
    /\ pc = "par"
    /\ wpos[w] < WorkerCount(w)
    /\ LET i == WorkerFirst(w) + wpos[w]
       IN dst' = PixelBody(src, dst, i % src.width, i \div src.width, thr_sq)
    /\ wpos' = [wpos EXCEPT ![w] = wpos[w] + 1]
    /\ UNCHANGED <<src, pad, thr_sq, x, y, n, pc, seq>>
    /\ UNCHANGED hvars

NextPar == ccdRunSequential \/ \E w \in Workers : WorkerPixel(w)

SpecPar == InitPar /\ [][NextPar]_vars

AllWritten == pc = "par" /\ \A w \in Workers : wpos[w] = WorkerCount(w)

\* C8: in every interleaving of the workers the source frame stays as it
\* was, every pixel a worker has written holds what the sequential ccdRun
\* wrote there, every other pixel is untouched, and the finished destination
\* is the sequential one.
C8_OrderIndependent ==
    /\ src \in ParFrames
    /\ pc = "par" =>
          \A p \in DOMAIN dst :
              IF Written(p) THEN dst[p] = seq[p] ELSE dst[p] = src.pix[p]
    /\ AllWritten => dst = seq

\* Both workers are done and the filter has changed the frame.
C8_Witness == AllWritten /\ dst = seq /\ dst # src.pix

-----------------------------------------------------------------------------
(* What the claims speak of *)

\* The grid offsets per axis.
Offsets == {-12, -4, 4, 12}

\* Reflection of a coordinate at the edges 0 and w.
Reflect(c, w) == IF c < 0 THEN -c ELSE IF c >= w THEN 2 * w - (c + 2) ELSE c

SameFloat(a, b) == (IsNaN(a) /\ IsNaN(b)) \/ feq(a, b)

SameColour(c1, c2) == \A i \in 1 .. 3 : SameFloat(c1[i], c2[i])

InUnit(v) == ~IsNaN(v) /\ ~flt(v, fzero) /\ ~fgt(v, fone)

Clamp01(v) == IF flt(v, fzero) THEN fzero ELSE IF fgt(v, fone) THEN fone ELSE v

Dist2(c1, c2) ==
    LET d(i) == fsub(c1[i], c2[i])
    IN fadd(fadd(fmul(d(1), d(1)), fmul(d(2), d(2))), fmul(d(3), d(3)))

\* The reflected grid neighbour of (px, py) at offset o.
Neighbour(px, py, o) ==
    <<Reflect(px + o[1], src.width), Reflect(py + o[2], src.height)>>

NeighbourInPlane(px, py, o) ==
    InPlane(Neighbour(px, py, o)[1], Neighbour(px, py, o)[2],
            src.width, src.height)

\* The offsets whose neighbour is nearer to the centre than thr_sq.
Kept(px, py) ==
    {o \in Offsets \X Offsets :
        /\ NeighbourInPlane(px, py, o)
        /\ fgt(thr_sq, Dist2(src.pix[Neighbour(px, py, o)], src.pix[<<px, py>>]))}

RECURSIVE SumChannel(_, _, _, _)
SumChannel(px, py, os, i) ==
    IF os = {} THEN src.pix[<<px, py>>][i]
    ELSE LET o == CHOOSE o1 \in os : TRUE
         IN fadd(SumChannel(px, py, os \ {o}, i), src.pix[Neighbour(px, py, o)][i])

\* clamp(S / n, 0, 1) per channel.
Expected(px, py) ==
    LET kept == Kept(px, py)
        cnt == 1 + Cardinality(kept)
        avg(i) == fmul(SumChannel(px, py, kept, i), <<1, cnt>>)
    IN <<Clamp01(avg(1)), Clamp01(avg(2)), Clamp01(avg(3))>>

\* C1: every pixel ccdRun writes is clamp(S / n, 0, 1), S the centre sample
\* plus the samples of the reflected grid neighbours with thr_sq > d2, n one
\* more than their number; each of the 16 neighbours is a sample of the frame.
C1_WritesClampedAverage ==
    Processed =>
        /\ \A o \in Offsets \X Offsets : NeighbourInPlane(LastX, LastY, o)
        /\ SameColour(LastOut, Expected(LastX, LastY))

\* The same for the frames on which no neighbour leaves the plane.
KernelAverageFromThirteen ==
    (Processed /\ src.width > max_radius /\ src.height > max_radius) =>
        /\ SameColour(LastOut, Expected(LastX, LastY))
        /\ n = 1 + Cardinality(Kept(LastX, LastY))

\* C2: for every accepted width and height and every pixel, the wrapped grid
\* coordinates lie in [0, width) and [0, height).
C2_WrappedCoordsInPlane ==
    Processed =>
        \A d \in Offsets :
            /\ wrap_oob_coord(LastX + d, src.width) \in 0 .. src.width - 1
            /\ wrap_oob_coord(LastY + d, src.height) \in 0 .. src.height - 1

\* C4: with thr_sq = 0 no neighbour is included, n stays 1, each output pixel
\* is the clamp of its input pixel, and a frame with samples in [0, 1] comes
\* out unchanged.
C4_ZeroThresholdIdentity ==
    /\ (Processed /\ feq(thr_sq, fzero)) =>
          /\ n = 1
          /\ \A i \in 1 .. 3 : SameFloat(LastOut[i], Clamp01(LastRef[i]))
          /\ (\A i \in 1 .. 3 : InUnit(LastRef[i])) => SameColour(LastOut, LastRef)
    /\ (pc = "done" /\ feq(thr_sq, fzero)
            /\ \A p \in DOMAIN src.pix : \A i \in 1 .. 3 : InUnit(src.pix[p][i])) =>
          \A p \in DOMAIN src.pix : SameColour(dst[p], src.pix[p])

\* The 16x16 frame, uniform but (8,8) = (1,0,0), filtered with threshold 0.
C4_Witness ==
    /\ pc = "done"
    /\ feq(thr_sq, fzero)
    /\ src.width = 16 /\ src.height = 16
    /\ src.pix[<<8, 8>>] = Red /\ src.pix[<<0, 0>>] = Gray
    /\ SameColour(dst[<<8, 8>>], Red)
    /\ SameColour(dst[<<4, 4>>], Gray)

\* The offsets that reflect the coordinate c of an axis of length w onto c.
SelfOffsets(c, w) == {d \in Offsets : d = -2 * c \/ d = 2 * (w - 1 - c)}

C6_WeightBounds ==
    Processed =>
        /\ 1 <= n /\ n <= max_weight
        /\ max_weight = 17
        /\ n \in DOMAIN RCP_TABLE
        /\ RCP_TABLE[n] = <<1, n>>

\* A pixel whose 16 neighbours are all included.
C6_Witness == Processed /\ n = 17 /\ fgt(thr_sq, fzero)

\* C7 as stated: every sample written lies in [0, 1].
C7_OutputInUnitRange ==
    Processed => \A i \in 1 .. 3 : InUnit(LastOut[i])

\* C7 amended: every sample written lies in [0, 1], but for the channels in
\* which the centre sample is NaN, which are written as NaN.
C7_OutputInUnitRangeOrNaN ==
    Processed =>
        \A i \in 1 .. 3 :
            IF IsNaN(LastRef[i]) THEN IsNaN(LastOut[i]) ELSE InUnit(LastOut[i])

\* A centre above 1 in one channel and below 0 in another, both clamped.
C7_Witness ==
    /\ Processed
    /\ fgt(LastRef[1], fone) /\ feq(LastOut[1], fone)
    /\ flt(LastRef[2], fzero) /\ feq(LastOut[2], fzero)

-----------------------------------------------------------------------------
(* The plugin: ccdCreate, ccdGetframe and ccdFree of both files *)

MaxFrameNo == 1

RGBS ==
    [present |-> TRUE, id |-> 2000015, colorFamily |-> "cfRGB",
     sampleType |-> "stFloat", bitsPerSample |-> 32,
     subSamplingW |-> 0, subSamplingH |-> 0]

RGB24 ==
    [present |-> TRUE, id |-> 2000010, colorFamily |-> "cfRGB",
     sampleType |-> "stInteger", bitsPerSample |-> 8,
     subSamplingW |-> 0, subSamplingH |-> 0]

YUV420PS ==
    [present |-> TRUE, id |-> 3000100, colorFamily |-> "cfYUV",
     sampleType |-> "stFloat", bitsPerSample |-> 32,
     subSamplingW |-> 1, subSamplingH |-> 1]

\* A clip of variable format: no format at all (a null pointer in API 3).
Variable ==
    [present |-> FALSE, id |-> 0, colorFamily |-> "cfUndefined",
     sampleType |-> "stInteger", bitsPerSample |-> 0,
     subSamplingW |-> 0, subSamplingH |-> 0]

Formats == {RGBS, RGB24, YUV420PS, Variable}

\* Clip sizes: one too narrow, one too low, the smallest accepted, a larger.
HostSizes ==
    {<<max_radius - 1, max_radius>>, <<max_radius, max_radius - 1>>,
     <<max_radius, max_radius>>, <<MaxDim, MaxDim>>}

\* The values of the optional "threshold" key: absent, -1, 255.
Thresholds == {<<>>, <<-1>>, <<255>>}

\* mapGetFloat / propGetFloat (in, "threshold", index, &err).
mapGetFloat(vals, index) ==
    IF index < Len(vals) THEN [err |-> 0, val |-> vals[index + 1]]
    ELSE [err |-> 1, val |-> 0]

\* square (thr_user / (255 sqrt 3)), that is thr_user^2 / 195075.
ThrSq(thr_user) == Rat(thr_user * thr_user, 195075)

\* freeNode, and any other use of the node reference.
freeNode(nd) == [nd EXCEPT !.rel = nd.rel + 1]

UseNode(nd) == [nd EXCEPT !.misused = nd.misused \/ nd.rel >= nd.acq]

\* Frame k of the clip.
HostKind(k) == <<"stripes", "hdr", "nan", "outlier">>[(k % 4) + 1]

NodeFrame(k) == MkFrame(HostKind(k), args.width, args.height)

InitHost ==
    /\ ver \in {"v4", "v3"}
    /\ \E f \in Formats, s \in HostSizes, t \in Thresholds :
          args = [format |-> f, width |-> s[1], height |-> s[2],
                  threshold |-> t]
    /\ node = [acq |-> 0, rel |-> 0, misused |-> FALSE]
    /\ out = ""
    /\ filter = [state |-> "none", d |-> <<>>]
    /\ requested = {}
    /\ call = NoCall
    /\ src = NoFrame
    /\ pad \in Pads
    /\ thr_sq = fzero
    /\ dst = <<>>
    /\ x = 0
    /\ y = 0
    /\ n = 0
    /\ pc = "start"
    /\ seq = <<>>
    /\ wpos = <<>>

\* ccdCreate of src/src/ccd.cpp.  Each failed check sets the error and
\* returns; the ccdData is deleted on return, the node reference is not freed.
ccdCreate ==
    /\ pc = "start"
    /\ ver = "v4"
    /\ LET got == mapGetFloat(args.threshold, 0)
           thr_user == IF got.err # 0 THEN 4 ELSE got.val
           d == [node |-> "clip", thr_sq |-> ThrSq(thr_user)]
           vi == args
       IN /\ node' = UseNode([node EXCEPT !.acq = node.acq + 1])
          /\ IF \/ vi.format.sampleType # "stFloat"
                \/ vi.format.bitsPerSample # 32
                \/ vi.format.colorFamily # "cfRGB"
                \/ vi.format.subSamplingH # 0
                \/ vi.format.subSamplingW # 0
             THEN /\ out' = "CCD: Input clip must be RGBS"
                  /\ UNCHANGED filter
             ELSE IF vi.width < max_radius \/ vi.height < max_radius
             THEN /\ out' = "CCD: Input clip dimensions must be at least 12x12"
                  /\ UNCHANGED filter
             ELSE IF thr_user < 0
             THEN /\ out' = "CCD: Threshold must be >= 0"
                  /\ UNCHANGED filter
             ELSE /\ filter' = [state |-> "created", d |-> d]
                  /\ UNCHANGED out
    /\ pc' = "returned"
    /\ UNCHANGED <<ver, args, requested, call>>
    /\ UNCHANGED kvars_but_pc

\* setError (out, msg); freeNode (d.node); as the three checks of
\* src/ccd.cpp do, on s = [out, node].
ErrorAndFree(s, msg) == [out |-> msg, node |-> freeNode(s.node)]

\* d.vi->format->id of src/ccd.cpp.  With no format the read goes through a
\* null pointer: the build may have dropped the check before it, the read may
\* end the process or yield any id.
FormatReads(f) ==
    IF f.present THEN {[checked |-> TRUE, crash |-> FALSE, id |-> f.id]}
    ELSE [checked : BOOLEAN, crash : BOOLEAN, id : {RGBS.id, RGB24.id}]

\* createFilter of API 3 with the error already set on out: the filter is
\* constructed, or the host declines.
HostCreates(err) == IF err = "" THEN {TRUE} ELSE BOOLEAN

\* ccdCreate of src/ccd.cpp.  No check returns.
ccdCreate3 ==
    /\ pc = "start"
    /\ ver = "v3"
    /\ \E rd \in FormatReads(args.format) :
        LET got == mapGetFloat(args.threshold, 1)
            threshold == IF got.err # 0 THEN 4 ELSE got.val
            s0 == [out |-> out, node |-> [node EXCEPT !.acq = node.acq + 1]]
            s1 == IF threshold < 0
                  THEN ErrorAndFree(s0, "CCD: Threshold must be >= 0")
                  ELSE s0
            s2 == [s1 EXCEPT !.node = UseNode(s1.node)]
            s3 == IF ~args.format.present /\ rd.checked
                  THEN ErrorAndFree(s2,
                           "CCD: Variable format clips are not supported.")
                  ELSE s2
            s4 == IF rd.id # 2000015
                  THEN ErrorAndFree(s3, "CCD: Input clip must be RGBS")
                  ELSE s3
            d == [node |-> "clip", vi |-> args, threshold |-> threshold]
        IN IF rd.crash
           THEN /\ pc' = "crashed"
                /\ out' = s3.out
                /\ node' = s3.node
                /\ UNCHANGED filter
           ELSE \E made \in HostCreates(s4.out) :
                /\ pc' = "returned"
                /\ out' = s4.out
                /\ node' = UseNode(s4.node)
                /\ filter' = IF made THEN [state |-> "created", d |-> d]
                             ELSE filter
    /\ UNCHANGED <<ver, args, requested, call>>
    /\ UNCHANGED kvars_but_pc

Reasons == {"arInitial", "arAllFramesReady", "arError"}

FrameNos == 0 .. MaxFrameNo

\* The host activates a frame context with arInitial, and again with
\* arAllFramesReady for the frame it was asked for, or with arError.
Activates(k, activationReason) ==
    /\ pc = "returned"
    /\ filter.state = "created"
    /\ IF activationReason = "arInitial" THEN requested = {}
       ELSE k \in requested

GetframeKeepsSrc(k, activationReason) ==
    IF activationReason = "arInitial"
    THEN [NoCall EXCEPT !.reason = activationReason, !.n = k, !.requests = 1]
    ELSE IF activationReason = "arAllFramesReady"
    THEN [NoCall EXCEPT !.reason = activationReason, !.n = k, !.fetched = 1,
                        !.allocs = 1, !.runs = 1, !.ret = "dest"]
    ELSE [NoCall EXCEPT !.reason = activationReason, !.n = k]

\* What ccdGetframe of src/src/ccd.cpp calls, by activation reason: the
\* numbers of requestFrameFilter, getFrameFilter, newVideoFrame2, ccdRun and
\* freeFrame calls, and the frame it returns.
Getframe(k, activationReason) ==
    IF activationReason = "arInitial"
    THEN [NoCall EXCEPT !.reason = activationReason, !.n = k, !.requests = 1]
    ELSE IF activationReason = "arAllFramesReady"
    THEN [NoCall EXCEPT !.reason = activationReason, !.n = k, !.fetched = 1,
                        !.allocs = 1, !.runs = 1, !.freed = 1, !.ret = "dest"]
    ELSE [NoCall EXCEPT !.reason = activationReason, !.n = k]

\* The same of src/ccd.cpp: the fetched frame is returned as it is.
Getframe3(k, activationReason) ==
    IF activationReason = "arInitial"
    THEN [NoCall EXCEPT !.reason = activationReason, !.n = k, !.requests = 1]
    ELSE IF activationReason = "arAllFramesReady"
    THEN [NoCall EXCEPT !.reason = activationReason, !.n = k, !.fetched = 1,
                        !.ret = "src"]
    ELSE [NoCall EXCEPT !.reason = activationReason, !.n = k]

\* The effect of a ccdGetframe call c on the frames, the request and the node.
\* newVideoFrame2 copies the three planes of src into the new frame.
Called(c) ==
    /\ call' = c
    /\ requested' = IF c.requests > 0 THEN {c.n} ELSE {}
    /\ node' = IF c.requests > 0 \/ c.fetched > 0 THEN UseNode(node) ELSE node
    /\ src' = IF c.fetched > 0 THEN NodeFrame(c.n) ELSE src
    /\ thr_sq' = IF c.runs > 0 THEN filter.d.thr_sq ELSE thr_sq
    /\ dst' = IF c.runs > 0
              THEN ccdRun(NodeFrame(c.n), NodeFrame(c.n).pix, filter.d.thr_sq)
              ELSE IF c.allocs > 0 THEN NodeFrame(c.n).pix ELSE dst
    /\ UNCHANGED <<ver, args, out, filter, pad, x, y, n, pc, seq, wpos>>

ccdGetframe ==
    /\ ver = "v4"
    /\ \E k \in FrameNos, activationReason \in Reasons :
          /\ Activates(k, activationReason)
          /\ Called(Getframe(k, activationReason))

ccdGetframe3 ==
    /\ ver = "v3"
    /\ \E k \in FrameNos, activationReason \in Reasons :
          /\ Activates(k, activationReason)
          /\ Called(Getframe3(k, activationReason))

\* ccdFree of src/src/ccd.cpp, when the host destroys the filter.
ccdFree ==
    /\ ver = "v4"
    /\ pc = "returned"
    /\ filter.state = "created"
    /\ requested = {}
    /\ node' = freeNode(node)
    /\ filter' = [filter EXCEPT !.state = "freed"]
    /\ UNCHANGED <<ver, args, out, requested, call>>
    /\ UNCHANGED kvars

\* ccdFree of src/ccd.cpp.
ccdFree3 ==
    /\ ver = "v3"
    /\ pc = "returned"
    /\ filter.state = "created"
    /\ requested = {}
    /\ node' = freeNode(node)
    /\ filter' = [filter EXCEPT !.state = "freed"]
    /\ UNCHANGED <<ver, args, out, requested, call>>
    /\ UNCHANGED kvars

NextHost ==
    \/ ccdCreate
    \/ ccdCreate3
    \/ ccdGetframe
    \/ ccdGetframe3
    \/ ccdFree
    \/ ccdFree3

SpecHost == InitHost /\ [][NextHost]_vars

\* The configurations a validation check is to refuse.
Invalid ==
    \/ args.threshold # <<>> /\ args.threshold[1] < 0
    \/ args.format # RGBS
    \/ args.width < 12
    \/ args.height < 12

\* C3: in both plugins, once ccdCreate is over for a configuration that a
\* validation check is to refuse, the error is set on the output map, no
\* filter exists, and ccdGetframe has never run.
C3_FailClosed ==
    (pc # "start" /\ Invalid) =>
        /\ out # ""
        /\ filter.state = "none"
        /\ call.reason = "none"

\* C3, src/src/ccd.cpp alone: its ccdCreate is fail-closed.
C3_FailClosedNewPlugin ==
    (ver = "v4" /\ pc # "start" /\ Invalid) =>
        /\ out # ""
        /\ filter.state = "none"
        /\ call.reason = "none"

\* C9: after a ccdGetframe call of src/src/ccd.cpp for frame k: on arInitial
\* frame k is requested, nothing is fetched, allocated, run or freed and no
\* frame is returned; on arAllFramesReady frame k was fetched, one frame of
\* the source's extent was allocated, ccdRun ran once, the source was freed
\* once and the new frame, not the source, is returned; on any other reason
\* nothing was called and no frame is returned.
C9_Handshake ==
    (ver = "v4" /\ call.reason # "none") =>
        CASE call.reason = "arInitial" ->
                 /\ call.requests = 1
                 /\ requested = {call.n}
                 /\ call.fetched = 0 /\ call.allocs = 0 /\ call.runs = 0
                 /\ call.freed = 0 /\ call.ret = "null"
          [] call.reason = "arAllFramesReady" ->
                 /\ call.requests = 0 /\ call.fetched = 1
                 /\ call.allocs = 1 /\ call.runs = 1 /\ call.freed = 1
                 /\ call.ret = "dest"
                 /\ src = NodeFrame(call.n)
                 /\ DOMAIN dst = Pixels(src.width, src.height)
                 /\ thr_sq = filter.d.thr_sq
          [] OTHER ->
                 /\ call.requests = 0 /\ call.fetched = 0
                 /\ call.allocs = 0 /\ call.runs = 0 /\ call.freed = 0
                 /\ call.ret = "null"

\* A frame has been produced from a fetched source, and the kernel changed it.
C9_Witness ==
    /\ ver = "v4"
    /\ call.reason = "arAllFramesReady"
    /\ call.n = MaxFrameNo
    /\ call.ret = "dest"
    /\ dst # src.pix

\* C10: in both plugins the node reference is never used once released and
\* never released more often than acquired; when ccdCreate ends with an error
\* it has been released once, and when the filter has been destroyed it has
\* been released once.
C10_ReleasedExactlyOnce ==
    /\ ~node.misused
    /\ node.rel <= node.acq
    /\ (pc = "returned" /\ out # "") => node.rel = 1
    /\ filter.state = "freed" => node.rel = 1

\* C10, the path without error of either plugin: ccdFree releases the
\* reference, once.
C10_ReleasedOnSuccess ==
    (pc = "returned" /\ out = "") =>
        /\ ~node.misused
        /\ node.rel = (IF filter.state = "freed" THEN 1 ELSE 0)

=============================================================================
